---- MODULE Spec2Model ----
(***************************************************************************)
(* The Sequelize/Express user service.                                     *)
(*                                                                         *)
(* src/index.js is the program: it opens the connection (authenticate),    *)
(* defines the User model, synchronises the table (sync({alter:true})) and *)
(* starts the HTTP server.  It registers no route on app.                  *)
(* src/README.md ("CRUD operations", lines 223-306) documents the five     *)
(* route handlers; they are modelled from that listing, over the User      *)
(* model of src/index.js.                                                  *)
(*                                                                         *)
(*   Spec      index.js as written: the router of app is empty.            *)
(*   SpecLive  Spec with the fairness of the event loop on app.listen.     *)
(*   SpecCrud  the listening server with the README's routes registered.   *)
(*                                                                         *)
(* Every ORM call (one SQL statement) is one atomic step.  A handler with  *)
(* one ORM call is one action; PUT and DELETE /users/:id make two calls    *)
(* (findByPk, then update or destroy) and are two actions, with the        *)
(* handler suspended in between (inflight).  Requests carry well-formed    *)
(* JSON bodies.  A response stays in resp until it is delivered.           *)
(***************************************************************************)
EXTENDS Integers, FiniteSets, Bags, TLC

VARIABLES auth, sync, server, log, routes, table, nextId, inflight, resp, deleted

vars == <<auth, sync, server, log, routes, table, nextId, inflight, resp, deleted>>

startup == <<auth, sync, server, log>>
database == <<table, nextId>>

(* ------------------------------ bounds -------------------------------- *)

\* AUTO_INCREMENT values handed out: rows get ids in 1..MaxId.
MaxId == 2

\* PUT/DELETE handlers suspended between their lookup and their write.
MaxInFlight == 2

(* ----------------------------- the model ------------------------------ *)

\* JS undefined / SQL NULL of a string field.
Null == "null"

\* SQL NULL of the INTEGER column age (and an age absent from a body).
NullAge == 0

\* age: { defaultValue: 22 }
DefaultAge == 22

Usernames == {"a", "b"}
Passwords == {"p"}
Ages == {25, 30}
Ids == 1..MaxId

\* A row of table `user`: the four columns of sequelize.define("user", ...).
Rows == [id : Ids, username : Usernames, password : Passwords \cup {Null},
         age : Ages \cup {DefaultAge, NullAge}]

NoRow == [id |-> 0, username |-> Null, password |-> Null, age |-> NullAge]

\* The primary key and the unique, non-null username: the column constraints.
IdsOf(t) == {r.id : r \in t}
UsernamesOf(t) == {r.username : r \in t}

ValidTable(t) ==
    /\ \A r, s \in t : r.id = s.id => r = s
    /\ \A r, s \in t : r.username = s.username => r = s
    /\ \A r \in t : r.username # Null

(* ------------------------------ requests ------------------------------ *)

POST_USERS == "POST /users"
GET_USERS == "GET /users"
GET_USER == "GET /users/:id"
PUT_USER == "PUT /users/:id"
DELETE_USER == "DELETE /users/:id"
PATCH_USER == "PATCH /users/:id"

\* The five routes of the README's CRUD section.
CrudRoutes == {POST_USERS, GET_USERS, GET_USER, PUT_USER, DELETE_USER}

\* index.js: no app.get/post/put/delete/use call between express() and listen.
IndexRoutes == {}

NoBody == [username |-> Null, password |-> Null, age |-> NullAge]

\* POST bodies: {username?, password?, age?}.
PostBodies ==
    {[username |-> u, password |-> x[1], age |-> x[2]] :
        u \in Usernames \cup {Null}, x \in {<<Null, NullAge>>, <<"p", 30>>}}

\* PUT bodies: {username?, age}.
PutBodies == [username : Usernames \cup {Null}, password : {Null}, age : {30}]

RequestsOn(route) ==
    CASE route = POST_USERS -> [route : {route}, id : {0}, body : PostBodies]
      [] route = GET_USERS -> [route : {route}, id : {0}, body : {NoBody}]
      [] route = PUT_USER -> [route : {route}, id : Ids, body : PutBodies]
      [] OTHER -> [route : {route}, id : Ids, body : {NoBody}]

Requests == UNION {RequestsOn(route) : route \in CrudRoutes \cup {PATCH_USER}}

\* A response: the request it answers, the status, the JSON record or list it
\* carries, and for the record: which handler answered, the last SQL statement
\* that handler sent, and whether its ORM call threw.
NoResp == [route |-> "", id |-> 0, body |-> NoBody, status |-> 0,
           handler |-> "", sql |-> "", threw |-> FALSE, row |-> NoRow, rows |-> {}]

\* res.json(x): status 200.
Json(q, sql, row, rows) ==
    [route |-> q.route, id |-> q.id, body |-> q.body, status |-> 200,
     handler |-> "user", sql |-> sql, threw |-> FALSE, row |-> row, rows |-> rows]

\* A handler without its try/catch: the rejection leaves the handler and no
\* status is sent.
Uncaught(q, sql) ==
    [route |-> q.route, id |-> q.id, body |-> q.body, status |-> 0,
     handler |-> "none", sql |-> sql, threw |-> TRUE, row |-> NoRow, rows |-> {}]

\* catch (error) { console.error(...); res.status(500).send("Internal Server Error") }
OnError(q, sql) ==
    [route |-> q.route, id |-> q.id, body |-> q.body, status |-> 500,
     handler |-> "user", sql |-> sql, threw |-> TRUE, row |-> NoRow, rows |-> {}]

\* if (!user) { res.status(404).send("User not found"); return; }
NotFound(q) ==
    [route |-> q.route, id |-> q.id, body |-> q.body, status |-> 404,
     handler |-> "user", sql |-> "select", threw |-> FALSE, row |-> NoRow, rows |-> {}]

\* Express's final handler: no route matched, 404.
FinalHandler(q) ==
    [route |-> q.route, id |-> q.id, body |-> q.body, status |-> 404,
     handler |-> "none", sql |-> "", threw |-> FALSE, row |-> NoRow, rows |-> {}]

(* --------------------------- startup (index.js) ----------------------- *)

\* sync({alter:true}) keeps the rows of an existing table: the process starts
\* on a table that holds one row, with the counter past its id.
InitTable == {[id |-> 1, username |-> "a", password |-> "p", age |-> 25]}

InitNextId == Cardinality(InitTable) + 1

Init ==
    /\ auth = "pending"
    /\ sync = "pending"
    /\ server = "starting"
    /\ log = {}
    /\ routes = IndexRoutes
    /\ table = InitTable
    /\ nextId = InitNextId
    /\ inflight = EmptyBag
    /\ resp = NoResp
    /\ deleted = {}

\* sequelize.authenticate().then(() => console.log("Database Connected"))
AuthenticateOk ==
    /\ auth = "pending"
    /\ auth' = "ok"
    /\ log' = log \cup {"Database Connected"}
    /\ UNCHANGED <<sync, server, routes, table, nextId, inflight, resp, deleted>>

\* .catch((err) => console.log("Database Connection Failed", err))
AuthenticateFail ==
    /\ auth = "pending"
    /\ auth' = "failed"
    /\ log' = log \cup {"Database Connection Failed"}
    /\ UNCHANGED <<sync, server, routes, table, nextId, inflight, resp, deleted>>

\* User.sync({alter:true}).then((data) => console.log("Model Created")):
\* the table is altered in place, its rows are kept.
SyncOk ==
    /\ sync = "pending"
    /\ sync' = "ok"
    /\ log' = log \cup {"Model Created"}
    /\ UNCHANGED <<auth, server, routes, table, nextId, inflight, resp, deleted>>

\* .catch((err) => console.log(err))
SyncFail ==
    /\ sync = "pending"
    /\ sync' = "failed"
    /\ log' = log \cup {"sync error"}
    /\ UNCHANGED <<auth, server, routes, table, nextId, inflight, resp, deleted>>

\* app.listen moved into the then of User.sync.
ListenAfterSync ==
    /\ server = "starting"
    /\ sync = "ok"
    /\ server' = "listening"
    /\ log' = log \cup {"Server is running on port 3000"}
    /\ UNCHANGED <<auth, sync, routes, table, nextId, inflight, resp, deleted>>

\* app.listen(3000, () => console.log("Server is running on port 3000"))
Listen ==
    /\ server = "starting"
    /\ server' = "listening"
    /\ log' = log \cup {"Server is running on port 3000"}
    /\ UNCHANGED <<auth, sync, routes, table, nextId, inflight, resp, deleted>>

(* ------------------------------ dispatch ------------------------------ *)

\* A request is served once the server listens; the previous response has left.
Accepts(q) == server = "listening" /\ resp = NoResp

\* Express: a request no registered route matches falls through the router to
\* the final handler, which answers 404.
NoMatch(q) ==
    /\ Accepts(q)
    /\ q.route \notin routes
    /\ resp' = FinalHandler(q)
    /\ UNCHANGED <<startup, routes, database, inflight, deleted>>

\* The client receives the response.
Deliver ==
    /\ resp # NoResp
    /\ resp' = NoResp
    /\ UNCHANGED <<startup, routes, database, inflight, deleted>>

Next ==
    \/ AuthenticateOk
    \/ AuthenticateFail
    \/ SyncOk
    \/ SyncFail
    \/ Listen
    \/ \E q \in Requests : NoMatch(q)
    \/ Deliver

Spec == Init /\ [][Next]_vars

\* The event loop runs the listen once the module has loaded.
SpecLive == Spec /\ WF_vars(Listen)

(* ------------------- the ORM calls on the User model ------------------ *)

\* A lookup that ignores the key (findOne without a where clause).
FindFirst(t, id) == IF t # {} THEN CHOOSE r \in t : TRUE ELSE NoRow

\* User.findByPk(id): the row, or null.
FindByPk(t, id) == IF id \in IdsOf(t) THEN CHOOSE r \in t : r.id = id ELSE NoRow

\* User.findAll()
FindAll(t) == t

\* id: { autoIncrement: true, primaryKey: true }: the id an insert is given,
\* and the counter after it.
\* An id computed from the row count instead of the counter.
CountedId(t, n) == Cardinality(t) + 1

GeneratedId(t, n) == n

NextAutoIncrement(n) == n + 1

\* The model without allowNull: false.
NullAllowed(values) == FALSE

\* username: { allowNull: false }
NotNullViolation(values) == values.username = Null

\* The model without unique: true.
NotUnique(t, username, id) == FALSE

\* username: { unique: true }: another row than `id` holds the username.
UniqueViolation(t, username, id) == \E r \in t : r.username = username /\ r.id # id

\* The instance create builds: a field left undefined takes its default.
Build(values, id) ==
    [id |-> id, username |-> values.username, password |-> values.password,
     age |-> IF values.age = NullAge THEN DefaultAge ELSE values.age]

\* User.create(values) rejects: validation, connection, or constraint.
CreateThrows(t, values, dbOk) ==
    \/ NotNullViolation(values)
    \/ ~dbOk
    \/ UniqueViolation(t, values.username, 0)

\* instance.update(values): undefined values are left out, and only the fields
\* that differ from the instance are written; with none, no statement is sent.
SetValues(user, values) ==
    IF values.username = Null THEN user ELSE [user EXCEPT !.username = values.username]

Changed(user, values) == values.username # Null /\ values.username # user.username

\* UPDATE user SET username = ? WHERE id = ?: no row matched is no error.
UpdateRows(t, id, username) ==
    {IF r.id = id THEN [r EXCEPT !.username = username] ELSE r : r \in t}

UpdateThrows(t, id, username, dbOk) ==
    \/ ~dbOk
    \/ id \in IdsOf(t) /\ UniqueViolation(t, username, id)

\* DELETE FROM user WHERE id = ?: no row matched is no error.
Destroy(t, id) == {r \in t : r.id # id}

(* ------------------- the route handlers (README.md) ------------------- *)

\* const { username, email } = req.body: what POST and PUT pass to the ORM.
\* email is no column of User; password and age are not read from the body.
HandlerValues(body) == [username |-> body.username, password |-> Null, age |-> NullAge]

\* A handler suspended between its lookup and its write.
Suspended(q, user) == [route |-> q.route, id |-> q.id, body |-> q.body, user |-> user]

Request(h) == [route |-> h.route, id |-> h.id, body |-> h.body]

Routed(q, route) == Accepts(q) /\ q.route = route /\ q.route \in routes

\* app.post("/users", ...)
PostUsers(q, dbOk) ==
    /\ Routed(q, POST_USERS)
    /\ LET values == HandlerValues(q.body)
           user == Build(values, GeneratedId(table, nextId))
       IN  IF CreateThrows(table, values, dbOk)
           THEN /\ resp' = OnError(q, "insert")
                /\ UNCHANGED database
           ELSE /\ nextId <= MaxId
                /\ table' = table \cup {user}
                /\ nextId' = NextAutoIncrement(nextId)
                /\ resp' = Json(q, "insert", user, {})
    /\ UNCHANGED <<startup, routes, inflight, deleted>>

\* app.get("/users", ...)
GetUsers(q, dbOk) ==
    /\ Routed(q, GET_USERS)
    /\ resp' = IF dbOk THEN Json(q, "select", NoRow, FindAll(table))
                       ELSE OnError(q, "select")
    /\ UNCHANGED <<startup, routes, database, inflight, deleted>>

\* app.get("/users/:id", ...)
GetUser(q, dbOk) ==
    /\ Routed(q, GET_USER)
    /\ LET user == FindByPk(table, q.id)
       IN  resp' = IF ~dbOk THEN OnError(q, "select")
                   ELSE IF user = NoRow THEN NotFound(q)
                   ELSE Json(q, "select", user, {})
    /\ UNCHANGED <<startup, routes, database, inflight, deleted>>

\* The lookup of PUT and DELETE /users/:id: findByPk, then 404, or on to the write.
Lookup(q, dbOk) ==
    LET user == FindByPk(table, q.id)
    IN  IF ~dbOk
        THEN resp' = OnError(q, "select") /\ UNCHANGED inflight
        ELSE IF user = NoRow
        THEN resp' = NotFound(q) /\ UNCHANGED inflight
        ELSE /\ BagCardinality(inflight) < MaxInFlight
             /\ inflight' = inflight (+) SetToBag({Suspended(q, user)})
             /\ UNCHANGED resp

\* app.put("/users/:id", ...), to the await of findByPk
PutLookup(q, dbOk) ==
    /\ Routed(q, PUT_USER)
    /\ Lookup(q, dbOk)
    /\ UNCHANGED <<startup, routes, database, deleted>>

\* app.put("/users/:id", ...), from user.update to the response
PutUpdate(h, dbOk) ==
    /\ resp = NoResp
    /\ BagIn(h, inflight)
    /\ h.route = PUT_USER
    /\ inflight' = inflight (-) SetToBag({h})
    /\ LET values == HandlerValues(h.body)
           user == SetValues(h.user, values)
       IN  IF ~Changed(h.user, values)
           THEN /\ resp' = Json(Request(h), "select", user, {})
                /\ UNCHANGED table
           ELSE IF UpdateThrows(table, h.id, values.username, dbOk)
           THEN /\ resp' = OnError(Request(h), "update")
                /\ UNCHANGED table
           ELSE /\ resp' = Json(Request(h), "update", user, {})
                /\ table' = UpdateRows(table, h.id, values.username)
    /\ UNCHANGED <<startup, routes, nextId, deleted>>

\* app.delete("/users/:id", ...), to the await of findByPk
DeleteLookup(q, dbOk) ==
    /\ Routed(q, DELETE_USER)
    /\ Lookup(q, dbOk)
    /\ UNCHANGED <<startup, routes, database, deleted>>

\* app.delete("/users/:id", ...), from user.destroy to the response
DeleteDestroy(h, dbOk) ==
    /\ resp = NoResp
    /\ BagIn(h, inflight)
    /\ h.route = DELETE_USER
    /\ inflight' = inflight (-) SetToBag({h})
    /\ IF ~dbOk
       THEN /\ resp' = OnError(Request(h), "delete")
            /\ UNCHANGED <<table, deleted>>
       ELSE /\ resp' = Json(Request(h), "delete", NoRow, {})
            /\ table' = Destroy(table, h.id)
            /\ deleted' = deleted \cup {h.id}
    /\ UNCHANGED <<startup, routes, nextId>>

\* The server of index.js, listening, with the README's five routes registered.
InitCrud ==
    /\ auth = "ok"
    /\ sync = "ok"
    /\ server = "listening"
    /\ log = {"Database Connected", "Model Created", "Server is running on port 3000"}
    /\ routes = CrudRoutes
    /\ table = InitTable
    /\ nextId = InitNextId
    /\ inflight = EmptyBag
    /\ resp = NoResp
    /\ deleted = {}

NextCrud ==
    \/ \E q \in RequestsOn(POST_USERS), dbOk \in BOOLEAN : PostUsers(q, dbOk)
    \/ \E q \in RequestsOn(GET_USERS), dbOk \in BOOLEAN : GetUsers(q, dbOk)
    \/ \E q \in RequestsOn(GET_USER), dbOk \in BOOLEAN : GetUser(q, dbOk)
    \/ \E q \in RequestsOn(PUT_USER), dbOk \in BOOLEAN : PutLookup(q, dbOk)
    \/ \E q \in RequestsOn(DELETE_USER), dbOk \in BOOLEAN : DeleteLookup(q, dbOk)
    \/ \E dbOk \in BOOLEAN : \E h \in BagToSet(inflight) : PutUpdate(h, dbOk)
    \/ \E dbOk \in BOOLEAN : \E h \in BagToSet(inflight) : DeleteDestroy(h, dbOk)
    \/ \E q \in RequestsOn(PATCH_USER) : NoMatch(q)
    \/ Deliver

SpecCrud == InitCrud /\ [][NextCrud]_vars

(* ------------------------------ the claims ---------------------------- *)

\* A step that answers a request.
Responded == resp = NoResp /\ resp' # NoResp

\* A step in which the handler answers right after its lookup (no write).
AnsweredAtLookup == Responded /\ inflight' = inflight

ById == {GET_USER, PUT_USER, DELETE_USER}

\* C1: once the server listens, a request on any of the five routes is
\* dispatched to a user-resource handler; none is left unmatched.
C1_FiveRoutesDispatched == resp.route \in CrudRoutes => resp.handler = "user"

\* C2: a create whose username is present and held by no row returns 200 with
\* the created record, and the table gains exactly one row: the request's
\* username and password, the request's age or 22, and a fresh id.  (Stated for
\* the creates whose ORM call does not throw.)
C2_CreateStoresRequest ==
    [][(/\ Responded
        /\ resp'.route = POST_USERS
        /\ resp'.body.username # Null
        /\ resp'.body.username \notin UsernamesOf(table)
        /\ ~resp'.threw)
       => /\ resp'.status = 200
          /\ resp'.row.id \notin IdsOf(table)
          /\ resp'.row.username = resp'.body.username
          /\ resp'.row.password = resp'.body.password
          /\ resp'.row.age = (IF resp'.body.age = NullAge THEN DefaultAge
                                                          ELSE resp'.body.age)
          /\ table' = table \cup {resp'.row}]_vars

C5_UpdateReplacesUsernameAndAge ==
    /\ [][(/\ Responded
           /\ resp'.route = PUT_USER
           /\ resp'.status = 200
           /\ resp'.body.username # Null
           /\ resp'.id \in IdsOf(table))
          => LET old == FindByPk(table, resp'.id)
                 new == [old EXCEPT !.username = resp'.body.username,
                                    !.age = resp'.body.age]
             IN  /\ table' = (table \ {old}) \cup {new}
                 /\ resp'.row = new]_vars
    /\ [][(Responded /\ resp'.route = GET_USER /\ resp'.status = 200)
          => resp'.row = FindByPk(table, resp'.id)]_vars

\* What holds of a DELETE that returned 200: the row is gone, the delete
\* removed no other row and changed none.
DeleteRemovesOnlyItsRow ==
    /\ [](resp.route = DELETE_USER /\ resp.status = 200
            => resp.id \notin IdsOf(table))
    /\ [][(Responded /\ resp'.route = DELETE_USER)
            => /\ table' \subseteq table
               /\ \A r \in table \ table' : r.id = resp'.id /\ resp'.status = 200]_vars

C8_WriteFoundItsRow ==
    [][(/\ Responded
        /\ resp'.route \in {PUT_USER, DELETE_USER}
        /\ resp'.sql \in {"update", "delete"}
        /\ resp'.status = 200)
       => resp'.id \in IdsOf(table)]_vars

C10_ListensWhateverStartupDoes ==
    /\ [](server = "starting" => ENABLED Listen)
    /\ [](auth = "failed" => "Database Connection Failed" \in log)
    /\ [](sync = "failed" => "sync error" \in log)
    /\ [][server = "listening" => server' = "listening"]_vars
    /\ <>(server = "listening")

C10_Witness ==
    /\ server = "listening"
    /\ auth = "failed"
    /\ sync = "pending"
    /\ resp.status = 404

====
